---- MODULE Spec2Model ----
(***************************************************************************)
(* Model of the generated FastAPI backend (templates/common/backend): the   *)
(* users and items tables, the JWTs handed out to clients, the in-memory    *)
(* admin audit log and the request handlers of the auth, users, admin and   *)
(* items routers, with the service calls the service tests make directly.   *)
(* Every handler is one atomic action (one request, one transaction).       *)
(* Time is counted in minutes.  Fields of User that no modelled handler     *)
(* branches on (username, full_name, created_at, updated_at, the email      *)
(* verification token) are left out; requests never name a taken username.  *)
(***************************************************************************)
EXTENDS Integers, Sequences, FiniteSets, TLC

\* ------------------------------------------------------------------ bounds
MaxUsers == 2
MaxTokens == 2
MaxAudit == 1
MaxElapse == 1
MaxLoginCount == 1
MaxResetTokens == 1
MaxRequests == 3
MaxUpdateFields == 1
MaxImport == 1
MaxItems == 1
MaxSecrets == 4
MaxRotating == 2
MaxWorkers == 1

\* ------------------------------------------------------- program constants
ACCESS_TOKEN_EXPIRE_MINUTES == 30
REFRESH_TOKEN_EXPIRE_DAYS == 7
PASSWORD_RESET_TOKEN_EXPIRE_HOURS == 24
MinPasswordLength == 8
MaxPasswordLength == 128
MinutesPerHour == 60
MinutesPerDay == 1440

FIRST_SUPERUSER_EMAIL == "admin@example.com"
FIRST_SUPERUSER_PASSWORD == <<"a", "d", "m", "i", "n", "1", "2", "3">>

UserIds == 1..MaxUsers
Emails == {FIRST_SUPERUSER_EMAIL, "user@example.com", "new@example.com"}

UpperChars == {"A", "B", "C", "D", "E", "F", "G", "H", "I", "J", "K", "L", "M",
               "N", "O", "P", "Q", "R", "S", "T", "U", "V", "W", "X", "Y", "Z"}
LowerChars == {"a", "b", "c", "d", "e", "f", "g", "h", "i", "j", "k", "l", "m",
               "n", "o", "p", "q", "r", "s", "t", "u", "v", "w", "x", "y", "z"}
DigitChars == {"0", "1", "2", "3", "4", "5", "6", "7", "8", "9"}

\* Passwords the clients type: the first superuser's, which is long enough
\* for the request schemas but has no uppercase letter, and two strong ones.
PwOne == <<"T", "e", "s", "t", "P", "a", "s", "s", "1">>
PwTwo == <<"N", "e", "w", "P", "a", "s", "s", "2", "!">>
Passwords == {FIRST_SUPERUSER_PASSWORD, PwOne, PwTwo}
NoPw == << >>

\* The stretches of time that pass between requests.
ElapseChoices == {PASSWORD_RESET_TOKEN_EXPIRE_HOURS * MinutesPerHour,
                  (REFRESH_TOKEN_EXPIRE_DAYS + 1) * MinutesPerDay}

NoTime == -1
NoUserId == 0
NoResetToken == 0
ResetTokenIds == 1..MaxResetTokens
ItemIds == 1..MaxItems
NoItemId == 0

VARIABLES users, nextId, tokens, now, elapsed, resetIssued, audit_log,
          requests, resp, items, nextItemId

\* The global token_rotation_service (services/token_rotation.py):
\*   token_store     its RefreshTokenStore
\*   rotating        the rotate_refresh_token calls waiting for db.execute
\*   refresh_tokens  the refresh tokens it has handed out
\*   secrets         how many secrets.token_urlsafe values have been drawn
\*   rotated         the refresh tokens whose rotation returned a new pair
\*   reused          the families in which a token that was already used or
\*                   rotated has been presented to rotate_refresh_token
VARIABLES token_store, rotating, refresh_tokens, secrets, rotated, reused

rotation == <<token_store, rotating, refresh_tokens, secrets, rotated, reused>>

\* One run of a pipeline of the validation harness (kedro-pipeline):
\*   pipeline_name  the registered pipeline that is run ("" for none)
\*   started        the names of the nodes that have been started
\*   finished       the names of the nodes that have returned
\*   catalog        the datasets that have been produced
\*   project_info   what generate_project returned, by dataset
\*   test_dirs      the project_info datasets whose test directory is on disk
\*   compose        the call of test_docker_compose_up: where it is, for which
\*                  project path, and the docker compose commands it has run
VARIABLES pipeline_name, started, finished, catalog, project_info, test_dirs,
          compose

harness == <<pipeline_name, started, finished, catalog, project_info, test_dirs,
             compose>>

vars == <<users, nextId, tokens, now, elapsed, resetIssued, audit_log,
          requests, resp, items, nextItemId, rotation, harness>>

\* ------------------------------------------------------------ AuthService
get_password_hash(password) == [bcrypt |-> password]

verify_password(plain_password, hashed_password) ==
    hashed_password = get_password_hash(plain_password)

NoHash == [bcrypt |-> NoPw]

AbsentUser == [exists |-> FALSE, email |-> "", hashed_password |-> NoHash,
               is_active |-> FALSE, is_superuser |-> FALSE,
               is_verified |-> FALSE,
               password_reset_token |-> NoResetToken,
               password_reset_at |-> NoTime,
               last_login_at |-> NoTime, login_count |-> 0]

NewUser(email, password, active, superuser, verified) ==
    [exists |-> TRUE, email |-> email,
     hashed_password |-> get_password_hash(password),
     is_active |-> active, is_superuser |-> superuser,
     is_verified |-> verified,
     password_reset_token |-> NoResetToken,
     password_reset_at |-> NoTime,
     last_login_at |-> NoTime, login_count |-> 0]

\* JWT payloads.  A token that does not decode is InvalidToken.
NoToken == [sub |-> NoUserId, type |-> "none", scopes |-> {}, exp |-> 0]
InvalidToken == [sub |-> NoUserId, type |-> "invalid", scopes |-> {}, exp |-> 0]

create_access_token(sub, expires_delta, scopes, t) ==
    [sub |-> sub, type |-> "access", scopes |-> scopes, exp |-> t + expires_delta]

create_refresh_token(sub, t) ==
    [sub |-> sub, type |-> "refresh", scopes |-> {},
     exp |-> t + REFRESH_TOKEN_EXPIRE_DAYS * MinutesPerDay]

\* jwt.decode: the signature verifies and the exp claim is not in the past.
jwt_decode_ok(token, t) == token.type \in {"access", "refresh"} /\ token.exp >= t

\* verify_token without the check of exp.
verify_token_unexpiring(token, t) ==
    IF token.type \in {"access", "refresh"} THEN token.sub ELSE NoUserId

\* AuthService.verify_token: the user id of the payload, whatever its type.
verify_token(token, t) ==
    IF jwt_decode_ok(token, t) THEN token.sub ELSE NoUserId

validate_password_strength(password) ==
    /\ ~(Len(password) < MinPasswordLength)
    /\ ~(Len(password) > MaxPasswordLength)
    /\ \E i \in 1..Len(password) : password[i] \in UpperChars
    /\ \E i \in 1..Len(password) : password[i] \in LowerChars
    /\ \E i \in 1..Len(password) : password[i] \in DigitChars

get_user_by_email(us, email) ==
    IF \E i \in UserIds : us[i].exists /\ us[i].email = email
    THEN CHOOSE i \in UserIds : us[i].exists /\ us[i].email = email
    ELSE NoUserId

get_user_by_id(us, user_id) ==
    IF user_id \in UserIds /\ us[user_id].exists THEN user_id ELSE NoUserId

\* get_user_by_reset_token without the expiry window.
get_user_by_reset_token_unexpiring(us, token, t) ==
    LET hit(i) == us[i].exists /\ us[i].password_reset_token = token
    IN IF \E i \in UserIds : hit(i)
       THEN CHOOSE i \in UserIds : hit(i)
       ELSE NoUserId

get_user_by_reset_token(us, token, t) ==
    LET hit(i) == /\ us[i].exists
                  /\ us[i].password_reset_token = token
                  /\ us[i].password_reset_at # NoTime
                  /\ us[i].password_reset_at >
                        t - PASSWORD_RESET_TOKEN_EXPIRE_HOURS * MinutesPerHour
    IN IF \E i \in UserIds : hit(i)
       THEN CHOOSE i \in UserIds : hit(i)
       ELSE NoUserId

\* authenticate_user without the is_active check.
authenticate_user_any(us, email, password) ==
    LET user == get_user_by_email(us, email)
    IN IF user = NoUserId THEN NoUserId
       ELSE IF ~verify_password(password, us[user].hashed_password) THEN NoUserId
       ELSE user

authenticate_user(us, email, password) ==
    LET user == get_user_by_email(us, email)
    IN IF user = NoUserId THEN NoUserId
       ELSE IF ~verify_password(password, us[user].hashed_password) THEN NoUserId
       ELSE IF ~us[user].is_active THEN NoUserId
       ELSE user

update_last_login(us, user, t) ==
    [us EXCEPT ![user].last_login_at = t,
               ![user].login_count = us[user].login_count + 1]

\* ------------------------------------------- services/token_rotation.py
NoFamily == 0

\* secrets.token_urlsafe(32): a value that was never drawn before.
token_urlsafe(drawn) == drawn + 1

\* payload.get(key): None when the token carries no such claim.
payload_get(payload, key, none) ==
    IF key \in DOMAIN payload THEN payload[key] ELSE none

\* TokenRotationService._hash_token: the SHA-256 digest of the token.
hash_token(token) == [sha256 |-> token]

\* RefreshTokenStore(): tokens is the dict of token data by token hash,
\* user_tokens the dict of token hashes by user id (no key: the empty set).
RefreshTokenStore ==
    [tokens |-> [h \in {} |-> {}], user_tokens |-> [u \in UserIds |-> {}]]

NoTokenData ==
    [user_id |-> NoUserId, family_id |-> NoFamily, expires_at |-> NoTime,
     used |-> FALSE]

revoke_token(store, token_hash) ==
    IF token_hash \notin DOMAIN store.tokens THEN store
    ELSE [tokens |-> [h \in DOMAIN store.tokens \ {token_hash} |-> store.tokens[h]],
          user_tokens |-> [store.user_tokens
                             EXCEPT ![store.tokens[token_hash].user_id] =
                                       @ \ {token_hash}]]

\* for token_hash in tokens_to_revoke: await self.revoke_token(token_hash)
RECURSIVE revoke_each(_, _)
revoke_each(store, tokens_to_revoke) ==
    IF tokens_to_revoke = {} THEN store
    ELSE LET token_hash == CHOOSE h \in tokens_to_revoke : TRUE
         IN revoke_each(revoke_token(store, token_hash),
                        tokens_to_revoke \ {token_hash})

cleanup_expired_tokens(store, t) ==
    revoke_each(store, {h \in DOMAIN store.tokens : t > store.tokens[h].expires_at})

store_token(store, token_hash, user_id, family_id, expires_at, t) ==
    LET token_data == [user_id |-> user_id, family_id |-> family_id,
                       expires_at |-> expires_at, used |-> FALSE]
    IN cleanup_expired_tokens(
           [tokens |-> [h \in DOMAIN store.tokens \cup {token_hash} |->
                          IF h = token_hash THEN token_data ELSE store.tokens[h]],
            user_tokens |-> [store.user_tokens EXCEPT ![user_id] =
                                                        @ \cup {token_hash}]],
           t)

\* get_token: the token data (NoTokenData for None) and the store it leaves,
\* an expired token being revoked on the way.
get_token(store, token_hash, t) ==
    IF token_hash \notin DOMAIN store.tokens
    THEN [token_data |-> NoTokenData, store |-> store]
    ELSE IF t > store.tokens[token_hash].expires_at
    THEN [token_data |-> NoTokenData, store |-> revoke_token(store, token_hash)]
    ELSE [token_data |-> store.tokens[token_hash], store |-> store]

\* mark_token_used that marks nothing.
mark_token_unused(store, token_hash) == store

mark_token_used(store, token_hash) ==
    IF token_hash \in DOMAIN store.tokens
    THEN [store EXCEPT !.tokens[token_hash].used = TRUE]
    ELSE store

revoke_token_family(store, family_id) ==
    revoke_each(store, {h \in DOMAIN store.tokens :
                          store.tokens[h].family_id = family_id})

revoke_user_tokens(store, user_id) ==
    revoke_each(store, store.user_tokens[user_id])

\* The refresh token create_token_pair and rotate_refresh_token encode.
encode_refresh_token(sub, family_id, jti, t) ==
    [sub |-> sub, family_id |-> family_id, jti |-> jti, type |-> "refresh",
     scopes |-> {}, exp |-> t + REFRESH_TOKEN_EXPIRE_DAYS * MinutesPerDay]

RotationScopes(us, user) == IF us[user].is_superuser THEN {"admin"} ELSE {"user"}

\* validate_refresh_token: the answer, for a store and a time.
valid_refresh_token(store, token, t) ==
    /\ jwt_decode_ok(token, t)
    /\ token.type = "refresh"
    /\ LET token_data == get_token(store, hash_token(token), t).token_data
       IN token_data # NoTokenData /\ ~token_data.used

\* ------------------------------------------------------------- responses
Resp(op, status, detail) ==
    [op |-> op, status |-> status, detail |-> detail,
     caller |-> NoUserId, target |-> NoUserId, email |-> "",
     pw |-> NoPw, tok |-> NoToken, rtok |-> NoResetToken,
     issued |-> NoToken, items |-> << >>]

Scopes(us, user) ==
    IF us[user].is_superuser THEN {"read", "write", "admin"} ELSE {"read", "write"}

\* What a client keeps of the tokens a response hands out.
KeepChoices == {"none", "access", "refresh", "both"}

Kept(access, refresh, keep) ==
    LET kept == CASE keep = "none" -> {}
                  [] keep = "access" -> {access}
                  [] keep = "refresh" -> {refresh}
                  [] OTHER -> {access, refresh}
    IN /\ Cardinality(tokens \cup kept) <= MaxTokens
       /\ tokens' = tokens \cup kept

\* A request: the client has read the previous response, and sends one more.
Idle == Resp("idle", 0, "")

\* The client has no response outstanding and may send a request.
Ready == resp = Idle /\ requests < MaxRequests

Count == /\ Ready
         /\ requests' = requests + 1

AbsentItem == [exists |-> FALSE, owner_id |-> NoUserId, is_available |-> FALSE]

\* The items some row of which references the user (items.owner_id is a
\* foreign key to users.id).
OwnedItems(its, user) == {i \in ItemIds : its[i].exists /\ its[i].owner_id = user}

\* ------------------------------------------------------------------ Init
\* test_docker_compose_up has not been called.
NotCalled == [pc |-> "idle", project_path |-> "", commands |-> << >>]

Init ==
    /\ users = [i \in UserIds |->
                  IF i = 1
                  THEN NewUser(FIRST_SUPERUSER_EMAIL, FIRST_SUPERUSER_PASSWORD,
                               TRUE, TRUE, TRUE)
                  ELSE AbsentUser]
    /\ nextId = 2
    /\ tokens = {}
    /\ now = 0
    /\ elapsed = 0
    /\ resetIssued = 0
    /\ audit_log = << >>
    /\ requests = 0
    /\ resp = Idle
    /\ items = [i \in ItemIds |-> AbsentItem]
    /\ nextItemId = 1
    /\ token_store = RefreshTokenStore
    /\ rotating = << >>
    /\ refresh_tokens = {}
    /\ secrets = 0
    /\ rotated = {}
    /\ reused = {}
    \* no pipeline of the validation harness is run
    /\ pipeline_name = ""
    /\ started = {}
    /\ finished = {}
    /\ catalog = {}
    /\ project_info = {}
    /\ test_dirs = {}
    /\ compose = NotCalled

\* The client reads the response.
Receive ==
    /\ resp # Idle
    /\ resp' = Idle
    /\ UNCHANGED <<users, nextId, tokens, now, elapsed, harness, rotation, items, nextItemId, resetIssued, audit_log,
                   requests>>

\* Time passes between two requests.
Elapse(d) ==
    /\ resp = Idle
    /\ elapsed < MaxElapse
    /\ elapsed' = elapsed + 1
    /\ now' = now + d
    /\ UNCHANGED <<users, nextId, tokens, resetIssued, audit_log, requests, resp,
                   items, nextItemId, rotation, harness>>

\* ------------------------------------------------------ api/v1/auth.py
\* POST /auth/login
login(email, password, keep) ==
    LET user == authenticate_user(users, email, password)
        access == create_access_token(user, ACCESS_TOKEN_EXPIRE_MINUTES,
                                      Scopes(users, user), now)
        refresh == create_refresh_token(user, now)
    IN /\ Count
       /\ IF user = NoUserId
          THEN /\ resp' = [Resp("login", 401, "Incorrect email or password")
                             EXCEPT !.email = email, !.pw = password]
               /\ UNCHANGED <<users, tokens>>
          ELSE /\ users[user].login_count < MaxLoginCount
               /\ users' = update_last_login(users, user, now)
               /\ Kept(access, refresh, keep)
               /\ resp' = [Resp("login", 200, "")
                             EXCEPT !.email = email, !.pw = password,
                                    !.caller = user, !.issued = access]
       /\ UNCHANGED <<nextId, now, elapsed, harness, rotation, items, nextItemId, resetIssued, audit_log>>

\* POST /auth/login-json
login_json(email, password, remember_me, keep) ==
    LET user == authenticate_user(users, email, password)
        access_token_expires ==
            IF remember_me THEN REFRESH_TOKEN_EXPIRE_DAYS * MinutesPerDay
                           ELSE ACCESS_TOKEN_EXPIRE_MINUTES
        access == create_access_token(user, access_token_expires,
                                      Scopes(users, user), now)
        refresh == create_refresh_token(user, now)
    IN /\ Count
       /\ IF user = NoUserId
          THEN /\ resp' = [Resp("login_json", 401, "Incorrect email or password")
                             EXCEPT !.email = email, !.pw = password]
               /\ UNCHANGED <<users, tokens>>
          ELSE /\ users[user].login_count < MaxLoginCount
               /\ users' = update_last_login(users, user, now)
               /\ Kept(access, refresh, keep)
               /\ resp' = [Resp("login_json", 200, "")
                             EXCEPT !.email = email, !.pw = password,
                                    !.caller = user, !.issued = access]
       /\ UNCHANGED <<nextId, now, elapsed, harness, rotation, items, nextItemId, resetIssued, audit_log>>

\* The password validator of UserCreate, UserRegister, UserPasswordUpdate
\* and PasswordReset, with the Field length limits.
password_validator(v) ==
    /\ Len(v) >= MinPasswordLength
    /\ Len(v) <= MaxPasswordLength
    /\ \E i \in 1..Len(v) : v[i] \in UpperChars
    /\ \E i \in 1..Len(v) : v[i] \in LowerChars
    /\ \E i \in 1..Len(v) : v[i] \in DigitChars

\* The Field limits of a password without a validator (UserUpdate, the
\* new_password query parameter of the admin reset).
password_field(v) ==
    Len(v) >= MinPasswordLength /\ Len(v) <= MaxPasswordLength

\* register without the validation and the check of the email.
register_unchecked(email, password, keep) ==
    LET id == nextId
        access == create_access_token(id, ACCESS_TOKEN_EXPIRE_MINUTES,
                                      {"read", "write"}, now)
    IN /\ Count
       /\ id <= MaxUsers
       /\ users' = [users EXCEPT ![id] = NewUser(email, password, TRUE, FALSE, FALSE)]
       /\ nextId' = id + 1
       /\ Kept(access, create_refresh_token(id, now), keep)
       /\ resp' = [Resp("register", 200, "User registered successfully")
                     EXCEPT !.email = email, !.pw = password, !.caller = id,
                            !.target = id, !.issued = access]
       /\ UNCHANGED <<now, elapsed, harness, rotation, items, nextItemId, resetIssued, audit_log>>

\* POST /auth/register
register(email, password, keep) ==
    LET id == nextId
        created == [users EXCEPT ![id] = NewUser(email, password, TRUE, FALSE, FALSE)]
        access == create_access_token(id, ACCESS_TOKEN_EXPIRE_MINUTES,
                                      {"read", "write"}, now)
        refresh == create_refresh_token(id, now)
    IN /\ Count
       /\ IF ~password_validator(password)
          THEN /\ resp' = [Resp("register", 422, "validation error")
                             EXCEPT !.email = email, !.pw = password]
               /\ UNCHANGED <<users, nextId, tokens>>
          ELSE IF get_user_by_email(users, email) # NoUserId
          THEN /\ resp' = [Resp("register", 400, "User with this email already exists")
                             EXCEPT !.email = email, !.pw = password]
               /\ UNCHANGED <<users, nextId, tokens>>
          ELSE IF ~validate_password_strength(password)
          THEN /\ resp' = [Resp("register", 400, "Password does not meet requirements")
                             EXCEPT !.email = email, !.pw = password]
               /\ UNCHANGED <<users, nextId, tokens>>
          ELSE /\ id <= MaxUsers
               /\ users' = created
               /\ nextId' = id + 1
               /\ Kept(access, refresh, keep)
               /\ resp' = [Resp("register", 200, "User registered successfully")
                             EXCEPT !.email = email, !.pw = password,
                                    !.caller = id, !.target = id,
                                    !.issued = access]
       /\ UNCHANGED <<now, elapsed, harness, rotation, items, nextItemId, resetIssued, audit_log>>

\* POST /auth/refresh.  Every exception in the body, the handler's own
\* "User not found or inactive" included, leaves as "Invalid refresh token".
refresh_token(token, keep) ==
    LET payload == verify_token(token, now)
        user == get_user_by_id(users, payload)
        access == create_access_token(user, ACCESS_TOKEN_EXPIRE_MINUTES,
                                      Scopes(users, user), now)
    IN /\ Count
       /\ IF payload = NoUserId
          THEN /\ resp' = [Resp("refresh_token", 401, "Invalid refresh token")
                             EXCEPT !.tok = token]
               /\ UNCHANGED tokens
          ELSE IF user = NoUserId \/ ~users[user].is_active
          THEN /\ resp' = [Resp("refresh_token", 401, "Invalid refresh token")
                             EXCEPT !.tok = token]
               /\ UNCHANGED tokens
          ELSE /\ Kept(access, access, keep)
               /\ resp' = [Resp("refresh_token", 200, "")
                             EXCEPT !.tok = token, !.caller = user,
                                    !.issued = access]
       /\ UNCHANGED <<users, nextId, now, elapsed, harness, rotation, items, nextItemId, resetIssued, audit_log>>

\* ------------------------------------------------ core/dependencies.py
Denied(status, detail) == [status |-> status, detail |-> detail, user |-> NoUserId]

\* get_current_user without the is_active check.
get_current_user_any_active(token) ==
    IF ~jwt_decode_ok(token, now)
    THEN Denied(401, "Could not validate credentials")
    ELSE IF token.type # "access"
    THEN Denied(401, "Invalid token type")
    ELSE IF get_user_by_id(users, token.sub) = NoUserId
    THEN Denied(401, "Could not validate credentials")
    ELSE [status |-> 200, detail |-> "", user |-> token.sub]

get_current_user(token) ==
    IF ~jwt_decode_ok(token, now)
    THEN Denied(401, "Could not validate credentials")
    ELSE IF token.type # "access"
    THEN Denied(401, "Invalid token type")
    ELSE IF get_user_by_id(users, token.sub) = NoUserId
    THEN Denied(401, "Could not validate credentials")
    ELSE IF ~users[token.sub].is_active
    THEN Denied(403, "Inactive user")
    ELSE [status |-> 200, detail |-> "", user |-> token.sub]

get_current_active_user(token) ==
    LET current_user == get_current_user(token)
    IN IF current_user.status # 200 THEN current_user
       ELSE IF ~users[current_user.user].is_active
       THEN Denied(403, "Inactive user")
       ELSE current_user

\* get_current_superuser without the is_superuser check.
get_current_superuser_any(token) == get_current_active_user(token)

get_current_superuser(token) ==
    LET current_user == get_current_active_user(token)
    IN IF current_user.status # 200 THEN current_user
       ELSE IF ~users[current_user.user].is_superuser
       THEN Denied(403, "Not enough permissions")
       ELSE current_user

\* The response of a handler whose dependency raised.
Refused(op, dep, token) ==
    [Resp(op, dep.status, dep.detail) EXCEPT !.tok = token]

\* A handler that answers from the database and writes nothing.
ReadOnly(op, dep, token) ==
    /\ Count
    /\ resp' = IF dep.status # 200 THEN Refused(op, dep, token)
               ELSE [Resp(op, 200, "") EXCEPT !.tok = token, !.caller = dep.user]
    /\ UNCHANGED <<users, nextId, tokens, now, elapsed, harness, rotation, items, nextItemId, resetIssued, audit_log>>

\* POST /auth/logout
logout(token) == ReadOnly("logout", get_current_user(token), token)

\* GET /auth/verify-token
verify_token_endpoint(token) ==
    ReadOnly("verify_token", get_current_active_user(token), token)

\* recover_password answering 404 for an email that is not registered.
recover_password_revealing(email) ==
    /\ Count
    /\ resp' = [(IF get_user_by_email(users, email) = NoUserId
                THEN Resp("recover_password", 404, "User not found")
                ELSE Resp("recover_password", 200, "Password recovery email sent"))
                  EXCEPT !.email = email]
    /\ UNCHANGED <<users, nextId, tokens, now, elapsed, harness, rotation, items, nextItemId, resetIssued, audit_log>>

\* POST /auth/password-recovery
recover_password(email) ==
    LET user == get_user_by_email(users, email)
        reset_token == resetIssued + 1
    IN /\ Count
       /\ resp' = [Resp("recover_password", 200, "Password recovery email sent")
                     EXCEPT !.email = email]
       /\ IF user = NoUserId
          THEN UNCHANGED <<users, resetIssued>>
          ELSE IF ~users[user].is_active
          THEN UNCHANGED <<users, resetIssued>>
          ELSE /\ resetIssued < MaxResetTokens
               /\ resetIssued' = reset_token
               /\ users' = [users EXCEPT ![user].password_reset_token = reset_token,
                                         ![user].password_reset_at = now]
       /\ UNCHANGED <<nextId, tokens, now, elapsed, harness, rotation, items, nextItemId, audit_log>>

\* POST /auth/reset-password
reset_password(token, new_password) ==
    LET user == get_user_by_reset_token(users, token, now)
    IN /\ Count
       /\ IF ~password_validator(new_password)
          THEN /\ resp' = [Resp("reset_password", 422, "validation error")
                             EXCEPT !.rtok = token, !.pw = new_password]
               /\ UNCHANGED users
          ELSE IF user = NoUserId
          THEN /\ resp' = [Resp("reset_password", 400, "Invalid or expired reset token")
                             EXCEPT !.rtok = token, !.pw = new_password]
               /\ UNCHANGED users
          ELSE IF ~validate_password_strength(new_password)
          THEN /\ resp' = [Resp("reset_password", 400, "Password does not meet requirements")
                             EXCEPT !.rtok = token, !.pw = new_password]
               /\ UNCHANGED users
          ELSE /\ users' = [users EXCEPT
                              ![user].hashed_password = get_password_hash(new_password),
                              ![user].password_reset_token = NoResetToken,
                              ![user].password_reset_at = NoTime]
               /\ resp' = [Resp("reset_password", 200, "Password reset successfully")
                             EXCEPT !.rtok = token, !.pw = new_password,
                                    !.target = user]
       /\ UNCHANGED <<nextId, tokens, now, elapsed, harness, rotation, items, nextItemId, resetIssued, audit_log>>

\* A direct call of AuthService.authenticate_user, as the service tests make.
authenticate_user_call(email, password) ==
    LET user == authenticate_user(users, email, password)
    IN /\ Count
       /\ resp' = [Resp("authenticate_user", IF user = NoUserId THEN 401 ELSE 200, "")
                     EXCEPT !.email = email, !.pw = password, !.caller = user]
       /\ UNCHANGED <<users, nextId, tokens, now, elapsed, harness, rotation, items, nextItemId,
                      resetIssued, audit_log>>

\* An optional field of a request body: {} when the request leaves it
\* unset, {v} when it sets it to v.
Unset == {}
Val(opt) == CHOOSE v \in opt : TRUE
Given(opt, old) == IF opt = Unset THEN old ELSE Val(opt)

\* A row with the columns of change written onto it.
With(row, change) ==
    [f \in DOMAIN row |-> IF f \in DOMAIN change THEN change[f] ELSE row[f]]

Reply(op, token, status, detail, caller, target) ==
    [Resp(op, status, detail) EXCEPT !.tok = token, !.caller = caller,
                                     !.target = target]

\* ---------------------------------------------- api/v1/users/profile.py
\* GET /users/me
get_current_user_info(token) ==
    ReadOnly("get_current_user_info", get_current_active_user(token), token)

\* PUT /users/me, body UserUpdate
update_current_user(token, user_update) ==
    LET dep == get_current_active_user(token)
        current_user == dep.user
        email_changes == /\ user_update.email # Unset
                         /\ Val(user_update.email) # users[current_user].email
        updated == [users[current_user] EXCEPT
                      !.is_verified = IF email_changes THEN FALSE ELSE @,
                      !.hashed_password =
                          IF user_update.password = Unset THEN @
                          ELSE get_password_hash(Val(user_update.password)),
                      !.email = Given(user_update.email, @),
                      !.is_active = Given(user_update.is_active, @),
                      !.is_superuser = Given(user_update.is_superuser, @)]
        reply(status, detail) ==
            [Reply("update_current_user", token, status, detail, current_user,
                   current_user)
               EXCEPT !.email = Given(user_update.email, ""),
                      !.pw = Given(user_update.password, NoPw)]
    IN /\ Count
       /\ IF dep.status # 200
          THEN /\ resp' = Refused("update_current_user", dep, token)
               /\ UNCHANGED users
          ELSE IF user_update.password # Unset
                  /\ ~password_field(Val(user_update.password))
          THEN /\ resp' = reply(422, "validation error")
               /\ UNCHANGED users
          ELSE IF email_changes
                  /\ get_user_by_email(users, Val(user_update.email)) # NoUserId
          THEN /\ resp' = reply(400, "Email already in use")
               /\ UNCHANGED users
          ELSE IF user_update.password # Unset
                  /\ ~validate_password_strength(Val(user_update.password))
          THEN /\ resp' = reply(400, "Password does not meet requirements")
               /\ UNCHANGED users
          ELSE /\ users' = [users EXCEPT ![current_user] = updated]
               /\ resp' = reply(200, "User updated successfully")
       /\ UNCHANGED <<nextId, tokens, now, elapsed, harness, rotation, items, nextItemId, resetIssued, audit_log>>

\* PUT /users/me/password, body UserPasswordUpdate
update_password(token, current_password, new_password) ==
    LET dep == get_current_active_user(token)
        current_user == dep.user
        reply(status, detail) ==
            [Reply("update_password", token, status, detail, current_user,
                   current_user) EXCEPT !.pw = new_password]
    IN /\ Count
       /\ IF dep.status # 200
          THEN /\ resp' = Refused("update_password", dep, token)
               /\ UNCHANGED users
          ELSE IF ~password_validator(new_password)
          THEN /\ resp' = reply(422, "validation error")
               /\ UNCHANGED users
          ELSE IF ~verify_password(current_password,
                                   users[current_user].hashed_password)
          THEN /\ resp' = reply(400, "Current password is incorrect")
               /\ UNCHANGED users
          ELSE IF ~validate_password_strength(new_password)
          THEN /\ resp' = reply(400, "New password does not meet requirements")
               /\ UNCHANGED users
          ELSE IF verify_password(new_password, users[current_user].hashed_password)
          THEN /\ resp' = reply(400, "New password must be different from current password")
               /\ UNCHANGED users
          ELSE /\ users' = [users EXCEPT ![current_user].hashed_password =
                                            get_password_hash(new_password)]
               /\ resp' = reply(200, "Password updated successfully")
       /\ UNCHANGED <<nextId, tokens, now, elapsed, harness, rotation, items, nextItemId, resetIssued, audit_log>>

\* DELETE /users/me
deactivate_account(token) ==
    LET dep == get_current_active_user(token)
    IN /\ Count
       /\ IF dep.status # 200
          THEN /\ resp' = Refused("deactivate_account", dep, token)
               /\ UNCHANGED users
          ELSE /\ users' = [users EXCEPT ![dep.user].is_active = FALSE]
               /\ resp' = Reply("deactivate_account", token, 200,
                                "Account deactivated successfully",
                                dep.user, dep.user)
       /\ UNCHANGED <<nextId, tokens, now, elapsed, harness, rotation, items, nextItemId, resetIssued, audit_log>>

\* GET /users/me/statistics
get_user_statistics(token) ==
    ReadOnly("get_user_statistics", get_current_active_user(token), token)

\* GET /users/me/export
export_user_data(token) ==
    ReadOnly("export_user_data", get_current_active_user(token), token)

\* ------------------------------------------- api/v1/users/management.py
\* A superuser-only handler that looks one user up and writes nothing.
Lookup(op, token, user_id) ==
    LET dep == get_current_superuser(token)
    IN /\ Count
       /\ resp' = IF dep.status # 200 THEN Refused(op, dep, token)
                  ELSE IF get_user_by_id(users, user_id) = NoUserId
                  THEN Reply(op, token, 404, "User not found", dep.user, user_id)
                  ELSE Reply(op, token, 200, "", dep.user, user_id)
       /\ UNCHANGED <<users, nextId, tokens, now, elapsed, harness, rotation, items, nextItemId,
                      resetIssued, audit_log>>

\* GET /users/
users_get_all_users(token) ==
    ReadOnly("users_get_all_users", get_current_superuser(token), token)

\* GET /users/{user_id}
users_get_user_by_id(token, user_id) ==
    Lookup("users_get_user_by_id", token, user_id)

\* POST /users/ and POST /admin/users, body AdminUserCreate
CreateByAdmin(op, token, user_data) ==
    LET dep == get_current_superuser(token)
        id == nextId
        reply(status, detail) ==
            [Reply(op, token, status, detail, dep.user, NoUserId)
               EXCEPT !.email = user_data.email, !.pw = user_data.password]
    IN /\ Count
       /\ IF dep.status # 200
          THEN /\ resp' = Refused(op, dep, token)
               /\ UNCHANGED <<users, nextId>>
          ELSE IF ~password_validator(user_data.password)
          THEN /\ resp' = reply(422, "validation error")
               /\ UNCHANGED <<users, nextId>>
          ELSE IF get_user_by_email(users, user_data.email) # NoUserId
          THEN /\ resp' = reply(400, "User with this email already exists")
               /\ UNCHANGED <<users, nextId>>
          ELSE IF ~validate_password_strength(user_data.password)
          THEN /\ resp' = reply(400, "Password does not meet requirements")
               /\ UNCHANGED <<users, nextId>>
          ELSE /\ id <= MaxUsers
               /\ users' = [users EXCEPT ![id] =
                              NewUser(user_data.email, user_data.password,
                                      user_data.is_active, user_data.is_superuser,
                                      user_data.is_verified)]
               /\ nextId' = id + 1
               /\ resp' = [reply(200, "User created successfully")
                             EXCEPT !.target = id]
       /\ UNCHANGED <<tokens, now, elapsed, harness, rotation, items, nextItemId, resetIssued, audit_log>>

create_user_by_admin(token, user_data) ==
    CreateByAdmin("create_user_by_admin", token, user_data)

\* The fields of an AdminUserUpdate body written onto a user row.
SetFields(user, user_update) ==
    [user EXCEPT !.email = Given(user_update.email, @),
                 !.is_active = Given(user_update.is_active, @),
                 !.is_superuser = Given(user_update.is_superuser, @),
                 !.is_verified = Given(user_update.is_verified, @)]

\* PUT /users/{user_id}, body AdminUserUpdate
update_user_by_admin(token, user_id, user_update) ==
    LET dep == get_current_superuser(token)
        user == get_user_by_id(users, user_id)
        reply(status, detail) ==
            [Reply("update_user_by_admin", token, status, detail, dep.user, user_id)
               EXCEPT !.email = Given(user_update.email, "")]
    IN /\ Count
       /\ IF dep.status # 200
          THEN /\ resp' = Refused("update_user_by_admin", dep, token)
               /\ UNCHANGED users
          ELSE IF user = NoUserId
          THEN /\ resp' = reply(404, "User not found")
               /\ UNCHANGED users
          ELSE IF /\ user_update.email # Unset
                  /\ Val(user_update.email) # users[user].email
                  /\ get_user_by_email(users, Val(user_update.email)) # NoUserId
          THEN /\ resp' = reply(400, "Email already in use")
               /\ UNCHANGED users
          ELSE /\ users' = [users EXCEPT ![user] = SetFields(@, user_update)]
               /\ resp' = reply(200, "")
       /\ UNCHANGED <<nextId, tokens, now, elapsed, harness, rotation, items, nextItemId, resetIssued, audit_log>>

\* DELETE /users/{user_id}.  The handler calls db.delete(user) without
\* awaiting it: on the AsyncSession of the application the call does nothing,
\* on a session whose delete is synchronous the row is removed.
delete_user_by_admin(token, user_id, delete_runs) ==
    LET dep == get_current_superuser(token)
        user == get_user_by_id(users, user_id)
        op == "delete_user_by_admin"
    IN /\ Count
       /\ IF dep.status # 200
          THEN /\ resp' = Refused(op, dep, token)
               /\ UNCHANGED users
          ELSE IF user = NoUserId
          THEN /\ resp' = Reply(op, token, 404, "User not found", dep.user, user_id)
               /\ UNCHANGED users
          ELSE IF user = dep.user
          THEN /\ resp' = Reply(op, token, 400, "Cannot delete your own account",
                                dep.user, user_id)
               /\ UNCHANGED users
          ELSE IF delete_runs /\ OwnedItems(items, user) # {}
          THEN /\ resp' = Reply(op, token, 500, "IntegrityError", dep.user, user_id)
               /\ UNCHANGED users
          ELSE /\ users' = IF delete_runs THEN [users EXCEPT ![user] = AbsentUser]
                           ELSE users
               /\ resp' = Reply(op, token, 200, "User deleted successfully",
                                dep.user, user_id)
       /\ UNCHANGED <<nextId, tokens, now, elapsed, harness, rotation, items, nextItemId, resetIssued, audit_log>>

\* ------------------------------------------------------ api/v1/admin.py
\* log_admin_action(action, user_id, admin_id, details)
log_admin_action(log, action, user_id, admin_id, t) ==
    Append(log, [timestamp |-> t, action |-> action, user_id |-> user_id,
                 admin_id |-> admin_id])

\* The common shape of the handlers of /admin/users/{user_id}/...: the
\* superuser dependency, the 404 on an unknown user, an optional refusal to
\* act on one's own account (self_detail, 403), the columns written (change),
\* and
\* an optional call of log_admin_action (action).
OnUser(op, token, user_id, self_detail, change, action) ==
    LET dep == get_current_superuser(token)
        user == get_user_by_id(users, user_id)
    IN /\ Count
       /\ IF dep.status # 200
          THEN /\ resp' = Refused(op, dep, token)
               /\ UNCHANGED <<users, audit_log>>
          ELSE IF user = NoUserId
          THEN /\ resp' = Reply(op, token, 404, "User not found", dep.user, user_id)
               /\ UNCHANGED <<users, audit_log>>
          ELSE IF self_detail # "" /\ user = dep.user
          THEN /\ resp' = Reply(op, token, 403, self_detail, dep.user, user_id)
               /\ UNCHANGED <<users, audit_log>>
          ELSE /\ users' = [users EXCEPT ![user] = With(@, change)]
               /\ IF action = "" THEN UNCHANGED audit_log
                  ELSE /\ Len(audit_log) < MaxAudit
                       /\ audit_log' = log_admin_action(audit_log, action, user,
                                                        dep.user, now)
               /\ resp' = Reply(op, token, 200, "", dep.user, user_id)
       /\ UNCHANGED <<nextId, tokens, now, elapsed, harness, rotation, items, nextItemId, resetIssued>>

\* GET /admin/users
admin_get_all_users(token) ==
    ReadOnly("admin_get_all_users", get_current_superuser(token), token)

\* GET /admin/users/stats
get_user_stats(token) ==
    ReadOnly("get_user_stats", get_current_superuser(token), token)

\* GET /admin/users/{user_id}
admin_get_user_by_id(token, user_id) ==
    Lookup("admin_get_user_by_id", token, user_id)

\* POST /admin/users
create_user_admin(token, user_data) ==
    CreateByAdmin("create_user_admin", token, user_data)

\* PUT /admin/users/{user_id}, body AdminUserUpdate
update_user_admin(token, user_id, user_update) ==
    LET dep == get_current_superuser(token)
        user == get_user_by_id(users, user_id)
        op == "update_user_admin"
        reply(status, detail) ==
            [Reply(op, token, status, detail, dep.user, user_id)
               EXCEPT !.email = Given(user_update.email, "")]
    IN /\ Count
       /\ IF dep.status # 200
          THEN /\ resp' = Refused(op, dep, token)
               /\ UNCHANGED <<users, audit_log>>
          ELSE IF user = NoUserId
          THEN /\ resp' = reply(404, "User not found")
               /\ UNCHANGED <<users, audit_log>>
          ELSE IF user = dep.user /\ user_update.is_superuser = {FALSE}
          THEN /\ resp' = reply(403, "Cannot remove superuser status from your own account")
               /\ UNCHANGED <<users, audit_log>>
          ELSE IF /\ user_update.email # Unset
                  /\ Val(user_update.email) # users[user].email
                  /\ get_user_by_email(users, Val(user_update.email)) # NoUserId
          THEN /\ resp' = reply(400, "Email already registered")
               /\ UNCHANGED <<users, audit_log>>
          ELSE /\ Len(audit_log) < MaxAudit
               /\ users' = [users EXCEPT ![user] = SetFields(@, user_update)]
               /\ audit_log' = log_admin_action(audit_log, "update_user", user,
                                                dep.user, now)
               /\ resp' = reply(200, "User updated successfully")
       /\ UNCHANGED <<nextId, tokens, now, elapsed, harness, rotation, items, nextItemId, resetIssued>>

Deactivated == [is_active |-> FALSE]
Activated == [is_active |-> TRUE]
Promoted == [is_superuser |-> TRUE]
Demoted == [is_superuser |-> FALSE]
Verified == [is_verified |-> TRUE]
Nothing == << >>

\* DELETE /admin/users/{user_id}
delete_user_admin(token, user_id) ==
    OnUser("delete_user_admin", token, user_id,
           "Cannot delete your own account", Deactivated, "")

\* POST /admin/users/{user_id}/activate
activate_user(token, user_id) ==
    OnUser("activate_user", token, user_id, "", Activated, "")

\* POST /admin/users/{user_id}/make-superuser
make_superuser(token, user_id) ==
    OnUser("make_superuser", token, user_id, "", Promoted, "")

\* POST /admin/users/{user_id}/remove-superuser
remove_superuser(token, user_id) ==
    OnUser("remove_superuser", token, user_id,
           "Cannot remove superuser status from your own account", Demoted, "")

\* POST /admin/users/{user_id}/verify-email
verify_user_email_admin(token, user_id) ==
    OnUser("verify_user_email_admin", token, user_id, "", Verified, "")

\* GET /admin/stats
get_system_stats(token) ==
    ReadOnly("get_system_stats", get_current_superuser(token), token)

\* GET /admin/recent-registrations
get_recent_registrations(token) ==
    ReadOnly("get_recent_registrations", get_current_superuser(token), token)

\* GET /admin/audit-log: the response carries the entries of audit_log.
get_audit_log(token) ==
    LET dep == get_current_superuser(token)
    IN /\ Count
       /\ resp' = IF dep.status # 200 THEN Refused("get_audit_log", dep, token)
                  ELSE [Reply("get_audit_log", token, 200, "", dep.user, NoUserId)
                          EXCEPT !.items = audit_log]
       /\ UNCHANGED <<users, nextId, tokens, now, elapsed, harness, rotation, items, nextItemId,
                      resetIssued, audit_log>>

\* POST /admin/users/{user_id}/reset-password?new_password=...
reset_user_password_admin(token, user_id, new_password) ==
    LET dep == get_current_superuser(token)
        user == get_user_by_id(users, user_id)
        op == "reset_user_password_admin"
        reply(status, detail) ==
            [Reply(op, token, status, detail, dep.user, user_id)
               EXCEPT !.pw = new_password]
    IN /\ Count
       /\ IF dep.status # 200
          THEN /\ resp' = Refused(op, dep, token)
               /\ UNCHANGED <<users, audit_log>>
          ELSE IF ~password_field(new_password)
          THEN /\ resp' = reply(422, "validation error")
               /\ UNCHANGED <<users, audit_log>>
          ELSE IF user = NoUserId
          THEN /\ resp' = reply(404, "User not found")
               /\ UNCHANGED <<users, audit_log>>
          ELSE IF ~validate_password_strength(new_password)
          THEN /\ resp' = reply(400, "Password does not meet requirements")
               /\ UNCHANGED <<users, audit_log>>
          ELSE /\ Len(audit_log) < MaxAudit
               /\ users' = [users EXCEPT ![user] =
                              [@ EXCEPT !.hashed_password =
                                            get_password_hash(new_password),
                                        !.password_reset_token = NoResetToken,
                                        !.password_reset_at = NoTime]]
               /\ audit_log' = log_admin_action(audit_log, "reset_password", user,
                                                dep.user, now)
               /\ resp' = reply(200, "Password reset successfully")
       /\ UNCHANGED <<nextId, tokens, now, elapsed, harness, rotation, items, nextItemId, resetIssued>>

\* GET /admin/users/export: the route is registered after
\* GET /admin/users/{user_id}, which takes the request and rejects the path
\* parameter "export" as no UUID.
export_users(token) ==
    LET dep == get_current_superuser(token)
    IN /\ Count
       /\ resp' = IF dep.status # 200 THEN Refused("export_users", dep, token)
                  ELSE Reply("export_users", token, 422, "validation error",
                             dep.user, NoUserId)
       /\ UNCHANGED <<users, nextId, tokens, now, elapsed, harness, rotation, items, nextItemId,
                      resetIssued, audit_log>>

\* The loop of import_users over users_data: a row whose email is held is
\* skipped, any other row is added.
RECURSIVE ImportRows(_, _, _)
ImportRows(us, id, users_data) ==
    IF users_data = << >> THEN [users |-> us, nextId |-> id]
    ELSE LET user_data == Head(users_data)
         IN IF get_user_by_email(us, user_data.email) # NoUserId
            THEN ImportRows(us, id, Tail(users_data))
            ELSE ImportRows([us EXCEPT ![id] =
                               NewUser(user_data.email, user_data.password,
                                       TRUE, user_data.is_superuser, FALSE)],
                            id + 1, Tail(users_data))

NewEmails(us, users_data) ==
    {users_data[k].email : k \in 1..Len(users_data)}
        \ {us[i].email : i \in {j \in UserIds : us[j].exists}}

\* POST /admin/users/import
import_users(token, users_data) ==
    LET dep == get_current_superuser(token)
        done == ImportRows(users, nextId, users_data)
    IN /\ Count
       /\ IF dep.status # 200
          THEN /\ resp' = Refused("import_users", dep, token)
               /\ UNCHANGED <<users, nextId, audit_log>>
          ELSE /\ Len(audit_log) < MaxAudit
               /\ nextId + Cardinality(NewEmails(users, users_data)) <= MaxUsers + 1
               /\ users' = done.users
               /\ nextId' = done.nextId
               /\ audit_log' = log_admin_action(audit_log, "import_users", dep.user,
                                                dep.user, now)
               /\ resp' = Reply("import_users", token, 200, "Import completed",
                                dep.user, NoUserId)
       /\ UNCHANGED <<tokens, now, elapsed, harness, rotation, items, nextItemId, resetIssued>>

\* POST /admin/users/bulk-activate and /admin/users/bulk-deactivate
Bulk(op, token, user_ids, refuse_self, change, action) ==
    LET dep == get_current_superuser(token)
    IN /\ Count
       /\ IF dep.status # 200
          THEN /\ resp' = Refused(op, dep, token)
               /\ UNCHANGED <<users, audit_log>>
          ELSE IF user_ids = {}
          THEN /\ resp' = Reply(op, token, 400, "No user IDs provided",
                                dep.user, NoUserId)
               /\ UNCHANGED <<users, audit_log>>
          ELSE IF refuse_self /\ dep.user \in user_ids
          THEN /\ resp' = Reply(op, token, 403, "Cannot deactivate your own account",
                                dep.user, NoUserId)
               /\ UNCHANGED <<users, audit_log>>
          ELSE /\ Len(audit_log) < MaxAudit
               /\ users' = [i \in UserIds |->
                              IF i \in user_ids /\ users[i].exists
                              THEN With(users[i], change) ELSE users[i]]
               /\ audit_log' = log_admin_action(audit_log, action, dep.user,
                                                dep.user, now)
               /\ resp' = Reply(op, token, 200, "", dep.user, NoUserId)
       /\ UNCHANGED <<nextId, tokens, now, elapsed, harness, rotation, items, nextItemId, resetIssued>>

bulk_activate_users(token, user_ids) ==
    Bulk("bulk_activate_users", token, user_ids, FALSE, Activated, "bulk_activate")

bulk_deactivate_users(token, user_ids) ==
    Bulk("bulk_deactivate_users", token, user_ids, TRUE, Deactivated,
         "bulk_deactivate")

\* GET /admin/users/{user_id}/sessions
get_user_sessions(token, user_id) == Lookup("get_user_sessions", token, user_id)

\* DELETE /admin/users/{user_id}/sessions
invalidate_user_sessions(token, user_id) ==
    OnUser("invalidate_user_sessions", token, user_id, "", Nothing,
           "invalidate_sessions")

\* ------------------------------------------------------ api/v1/items.py
\* GET /items/
get_items(token) == ReadOnly("get_items", get_current_active_user(token), token)

\* GET /items/{item_id}
get_item(token, item_id) ==
    LET dep == get_current_active_user(token)
    IN /\ Count
       /\ resp' = IF dep.status # 200 THEN Refused("get_item", dep, token)
                  ELSE IF ~(item_id \in ItemIds /\ items[item_id].exists)
                  THEN Reply("get_item", token, 404, "Item not found", dep.user,
                             NoUserId)
                  ELSE Reply("get_item", token, 200, "", dep.user, NoUserId)
       /\ UNCHANGED <<users, nextId, tokens, now, elapsed, harness, rotation, items, nextItemId,
                      resetIssued, audit_log>>

\* POST /items/, body ItemCreate
create_item(token, is_available) ==
    LET dep == get_current_active_user(token)
    IN /\ Count
       /\ IF dep.status # 200
          THEN /\ resp' = Refused("create_item", dep, token)
               /\ UNCHANGED <<items, nextItemId>>
          ELSE /\ nextItemId <= MaxItems
               /\ items' = [items EXCEPT ![nextItemId] =
                              [exists |-> TRUE, owner_id |-> dep.user,
                               is_available |-> is_available]]
               /\ nextItemId' = nextItemId + 1
               /\ resp' = Reply("create_item", token, 200, "", dep.user, NoUserId)
       /\ UNCHANGED <<users, nextId, tokens, now, elapsed, harness, rotation, resetIssued, audit_log>>

\* PUT /items/{item_id} and DELETE /items/{item_id}: the owner of the item
\* or a superuser writes the columns of change.
OnItem(op, token, item_id, change) ==
    LET dep == get_current_active_user(token)
    IN /\ Count
       /\ IF dep.status # 200
          THEN /\ resp' = Refused(op, dep, token)
               /\ UNCHANGED items
          ELSE IF ~(item_id \in ItemIds /\ items[item_id].exists)
          THEN /\ resp' = Reply(op, token, 404, "Item not found", dep.user, NoUserId)
               /\ UNCHANGED items
          ELSE IF /\ items[item_id].owner_id # dep.user
                  /\ ~users[dep.user].is_superuser
          THEN /\ resp' = Reply(op, token, 403, "Not enough permissions", dep.user,
                                NoUserId)
               /\ UNCHANGED items
          ELSE /\ items' = [items EXCEPT ![item_id] = With(@, change)]
               /\ resp' = Reply(op, token, 200, "", dep.user, NoUserId)
       /\ UNCHANGED <<users, nextId, tokens, now, elapsed, harness, rotation, nextItemId, resetIssued,
                      audit_log>>

update_item(token, item_id, is_available) ==
    OnItem("update_item", token, item_id, [is_available |-> is_available])

delete_item(token, item_id) == OnItem("delete_item", token, item_id, AbsentItem)

\* ------------------------------------------- services/user_service.py
\* UserService.create_user(db, user_create, is_verified, is_superuser)
UserService_create_user(email, password, is_verified, is_superuser) ==
    LET id == nextId
        reply(status, detail) ==
            [Reply("UserService.create_user", NoToken, status, detail, NoUserId,
                   NoUserId) EXCEPT !.email = email, !.pw = password]
    IN /\ Count
       /\ password_validator(password)
       /\ IF get_user_by_email(users, email) # NoUserId
          THEN /\ resp' = reply(400, "Email already registered")
               /\ UNCHANGED <<users, nextId>>
          ELSE IF ~validate_password_strength(password)
          THEN /\ resp' = reply(400, "Password does not meet requirements")
               /\ UNCHANGED <<users, nextId>>
          ELSE /\ id <= MaxUsers
               /\ users' = [users EXCEPT ![id] =
                              NewUser(email, password, TRUE, is_superuser,
                                      is_verified)]
               /\ nextId' = id + 1
               /\ resp' = [reply(200, "") EXCEPT !.target = id]
       /\ UNCHANGED <<tokens, now, elapsed, harness, rotation, items, nextItemId, resetIssued, audit_log>>

\* UserService.update_password(db, user, password_update)
UserService_update_password(user, current_password, new_password) ==
    LET reply(status, detail) ==
            [Reply("UserService.update_password", NoToken, status, detail, user, user)
               EXCEPT !.pw = new_password]
    IN /\ Count
       /\ users[user].exists
       /\ password_validator(new_password)
       /\ IF ~verify_password(current_password, users[user].hashed_password)
          THEN /\ resp' = reply(400, "Current password is incorrect")
               /\ UNCHANGED users
          ELSE IF ~validate_password_strength(new_password)
          THEN /\ resp' = reply(400, "Password does not meet requirements")
               /\ UNCHANGED users
          ELSE /\ users' = [users EXCEPT ![user].hashed_password =
                                            get_password_hash(new_password)]
               /\ resp' = reply(200, "")
       /\ UNCHANGED <<nextId, tokens, now, elapsed, harness, rotation, items, nextItemId, resetIssued, audit_log>>

\* UserService.delete_user(db, user, soft_delete)
UserService_delete_user(user, soft_delete) ==
    /\ Count
    /\ users[user].exists
    /\ IF ~soft_delete /\ OwnedItems(items, user) # {}
       THEN /\ resp' = Reply("UserService.delete_user", NoToken, 500,
                             "IntegrityError", NoUserId, user)
            /\ UNCHANGED users
       ELSE /\ users' = IF soft_delete THEN [users EXCEPT ![user].is_active = FALSE]
                        ELSE [users EXCEPT ![user] = AbsentUser]
            /\ resp' = Reply("UserService.delete_user", NoToken, 200, "",
                             NoUserId, user)
    /\ UNCHANGED <<nextId, tokens, now, elapsed, harness, rotation, items, nextItemId, resetIssued, audit_log>>

\* ------------------------------------------- services/token_rotation.py
\* The except clauses around the body of rotate_refresh_token: a JWTError
\* leaves as 401, every other exception, the HTTPException of a rejection
\* among them, as 500.
rotate_except(raised) ==
    IF raised.class = "JWTError"
    THEN [status |-> 401, detail |-> "Invalid or expired refresh token"]
    ELSE [status |-> 500, detail |-> "Error during token rotation"]

HTTPException(status_code, detail) ==
    [class |-> "HTTPException", status_code |-> status_code, detail |-> detail]

JWTError == [class |-> "JWTError", status_code |-> 0, detail |-> ""]

Rotation(token, status, detail) ==
    [Resp("rotate_refresh_token", status, detail) EXCEPT !.tok = token]

\* token_rotation_service.create_token_pair(user, db)
create_token_pair(user, keep) ==
    LET family_id == token_urlsafe(secrets)
        jti == token_urlsafe(secrets + 1)
        access_token == create_access_token(user, ACCESS_TOKEN_EXPIRE_MINUTES,
                                            RotationScopes(users, user), now)
        token == encode_refresh_token(user, family_id, jti, now)
    IN /\ Count
       /\ users[user].exists
       /\ jti <= MaxSecrets
       /\ users[user].login_count < MaxLoginCount
       /\ secrets' = jti
       /\ token_store' = store_token(token_store, hash_token(token), user,
                                     family_id,
                                     now + REFRESH_TOKEN_EXPIRE_DAYS * MinutesPerDay,
                                     now)
       /\ users' = [users EXCEPT ![user].last_login_at = now,
                                 ![user].login_count = @ + 1]
       /\ Kept(access_token, access_token, keep)
       /\ refresh_tokens' = refresh_tokens \cup {token}
       /\ resp' = [Resp("create_token_pair", 200, "")
                     EXCEPT !.caller = user, !.issued = token,
                            !.items = <<access_token, token, family_id>>]
       /\ UNCHANGED <<nextId, now, elapsed, harness, items, nextItemId, resetIssued,
                      audit_log, rotating, rotated, reused>>

\* token_rotation_service.rotate_refresh_token(token, db), as far as
\* its await db.execute: nothing before that suspends the coroutine.
rotate_refresh_token(token) ==
    LET payload == token
        user_id == payload_get(payload, "sub", NoUserId)
        family_id == payload_get(payload, "family_id", NoFamily)
        token_hash == hash_token(token)
        got == get_token(token_store, token_hash, now)
        raise(exception) ==
            LET left == rotate_except(exception)
            IN resp' = Rotation(token, left.status, left.detail)
    IN /\ Count
       /\ IF ~jwt_decode_ok(token, now)
          THEN /\ raise(JWTError)
               /\ UNCHANGED <<token_store, rotating, reused>>
          ELSE IF payload.type # "refresh"
          THEN /\ raise(HTTPException(401, "Invalid token type"))
               /\ UNCHANGED <<token_store, rotating, reused>>
          ELSE IF user_id = NoUserId \/ family_id = NoFamily
          THEN /\ raise(HTTPException(401, "Invalid refresh token"))
               /\ UNCHANGED <<token_store, rotating, reused>>
          ELSE IF got.token_data = NoTokenData
          THEN /\ token_store' = revoke_token_family(got.store, family_id)
               /\ reused' = IF token \in rotated
                            THEN reused \cup {family_id} ELSE reused
               /\ raise(HTTPException(401,
                     "Refresh token not found or expired. All tokens revoked for security."))
               /\ UNCHANGED rotating
          ELSE IF got.token_data.used
          THEN /\ token_store' = revoke_token_family(got.store, family_id)
               /\ reused' = reused \cup {family_id}
               /\ raise(HTTPException(401,
                     "Token reuse detected. All tokens revoked for security."))
               /\ UNCHANGED rotating
          ELSE /\ Len(rotating) < MaxRotating
               /\ token_store' = mark_token_used(got.store, token_hash)
               /\ rotating' = Append(rotating, token)
               /\ UNCHANGED <<resp, reused>>
       /\ UNCHANGED <<users, nextId, tokens, now, elapsed, harness, items, nextItemId,
                      resetIssued, audit_log, refresh_tokens, secrets, rotated>>

\* rotate_refresh_token from the answer of db.execute to its end, for the
\* i-th waiting call.
rotate_refresh_token_resumed(i, keep) ==
    LET token == rotating[i]
        family_id == token.family_id
        token_hash == hash_token(token)
        user == get_user_by_id(users, token.sub)
        access_token == create_access_token(user, ACCESS_TOKEN_EXPIRE_MINUTES,
                                            RotationScopes(users, user), now)
        jti == token_urlsafe(secrets)
        new_refresh_token == encode_refresh_token(user, family_id, jti, now)
        left == rotate_except(HTTPException(401, "User not found or inactive"))
    IN /\ resp = Idle
       /\ rotating' = SubSeq(rotating, 1, i - 1) \o
                      SubSeq(rotating, i + 1, Len(rotating))
       /\ IF user = NoUserId \/ ~users[user].is_active
          THEN /\ token_store' = revoke_token_family(token_store, family_id)
               /\ resp' = Rotation(token, left.status, left.detail)
               /\ UNCHANGED <<tokens, refresh_tokens, secrets, rotated>>
          ELSE /\ jti <= MaxSecrets
               /\ secrets' = jti
               /\ token_store' =
                     revoke_token(
                        store_token(token_store, hash_token(new_refresh_token),
                                    user, family_id,
                                    now + REFRESH_TOKEN_EXPIRE_DAYS * MinutesPerDay,
                                    now),
                        token_hash)
               /\ Kept(access_token, access_token, keep)
               /\ refresh_tokens' = refresh_tokens \cup {new_refresh_token}
               /\ rotated' = rotated \cup {token}
               /\ resp' = [Rotation(token, 200, "")
                             EXCEPT !.caller = user, !.issued = new_refresh_token,
                                    !.items = <<access_token, new_refresh_token>>]
       /\ UNCHANGED <<users, nextId, now, elapsed, harness, items, nextItemId,
                      resetIssued, audit_log, requests, reused>>

\* token_rotation_service.revoke_refresh_token(token, revoke_family)
revoke_refresh_token(token, revoke_family) ==
    LET family_id == payload_get(token, "family_id", NoFamily)
        token_hash == hash_token(token)
    IN /\ Count
       /\ token_store' =
             IF ~jwt_decode_ok(token, now) THEN token_store
             ELSE IF revoke_family /\ family_id # NoFamily
             THEN revoke_token_family(token_store, family_id)
             ELSE revoke_token(token_store, token_hash)
       /\ resp' = [Resp("revoke_refresh_token", 200, "") EXCEPT !.tok = token]
       /\ UNCHANGED <<users, nextId, tokens, now, elapsed, harness, items, nextItemId,
                      resetIssued, audit_log, rotating, refresh_tokens, secrets,
                      rotated, reused>>

\* token_rotation_service.revoke_all_user_tokens(user_id, db)
revoke_all_user_tokens(user_id) ==
    /\ Count
    /\ token_store' = revoke_user_tokens(token_store, user_id)
    /\ resp' = [Resp("revoke_all_user_tokens", 200, "") EXCEPT !.target = user_id]
    /\ UNCHANGED <<users, nextId, tokens, now, elapsed, harness, items, nextItemId,
                   resetIssued, audit_log, rotating, refresh_tokens, secrets,
                   rotated, reused>>

\* token_rotation_service.validate_refresh_token(token)
validate_refresh_token(token) ==
    LET token_hash == hash_token(token)
        valid == valid_refresh_token(token_store, token, now)
    IN /\ Count
       /\ token_store' =
             IF jwt_decode_ok(token, now) /\ token.type = "refresh"
             THEN get_token(token_store, token_hash, now).store
             ELSE token_store
       /\ resp' = [Resp("validate_refresh_token", 200,
                        IF valid THEN "True" ELSE "False")
                     EXCEPT !.tok = token]
       /\ UNCHANGED <<users, nextId, tokens, now, elapsed, harness, items, nextItemId,
                      resetIssued, audit_log, rotating, refresh_tokens, secrets,
                      rotated, reused>>

\* ------------------------------------------------------------ the inputs
PresentedTokens == tokens \cup {InvalidToken}
\* What a caller hands to the token rotation service: a refresh token it has
\* issued, an access token, a token that does not verify, or the refresh token
\* without family id that AuthService.create_refresh_token issues at a login.
PresentedRefreshTokens ==
    refresh_tokens \cup tokens \cup {InvalidToken, create_refresh_token(1, 0)}
PresentedResetTokens == ResetTokenIds \cup {MaxResetTokens + 1}
Opt(S) == {Unset} \cup {{v} : v \in S}
FieldsSet(r) == Cardinality({f \in DOMAIN r : r[f] # Unset})
UserUpdates ==
    {r \in [email : Opt(Emails), password : Opt(Passwords),
            is_active : Opt(BOOLEAN), is_superuser : Opt(BOOLEAN)] :
        FieldsSet(r) <= MaxUpdateFields}
AdminUserUpdates ==
    {r \in [email : Opt(Emails), is_active : Opt(BOOLEAN),
            is_superuser : Opt(BOOLEAN), is_verified : Opt(BOOLEAN)] :
        FieldsSet(r) <= MaxUpdateFields}
ImportData ==
    [email : Emails, password : {PwOne}, is_superuser : {FALSE}]
ImportLists ==
    UNION {[1..n -> ImportData] : n \in 0..MaxImport}
AdminUserCreates ==
    [email : Emails, password : {FIRST_SUPERUSER_PASSWORD, PwOne},
     is_active : {TRUE}, is_superuser : BOOLEAN, is_verified : {FALSE}]

Next ==
    \/ Receive
    \/ \E d \in ElapseChoices : Elapse(d)
    \/ Ready /\ \E e \in Emails, p \in Passwords, k \in KeepChoices : login(e, p, k)
    \/ Ready /\ \E e \in Emails, p \in Passwords, r \in BOOLEAN, k \in KeepChoices :
          login_json(e, p, r, k)
    \/ Ready /\ \E e \in Emails, p \in Passwords, k \in KeepChoices : register(e, p, k)
    \/ Ready /\ \E t \in PresentedTokens, k \in {"none", "access"} : refresh_token(t, k)
    \/ Ready /\ \E t \in PresentedTokens : logout(t)
    \/ Ready /\ \E t \in PresentedTokens : verify_token_endpoint(t)
    \/ Ready /\ \E e \in Emails : recover_password(e)
    \/ Ready /\ \E t \in PresentedResetTokens, p \in Passwords : reset_password(t, p)
    \/ Ready /\ \E e \in Emails, p \in Passwords : authenticate_user_call(e, p)
    \/ Ready /\ \E t \in PresentedTokens : get_current_user_info(t)
    \/ Ready /\ \E t \in PresentedTokens, u \in UserUpdates : update_current_user(t, u)
    \/ Ready /\ \E t \in PresentedTokens, c \in Passwords, p \in Passwords :
          update_password(t, c, p)
    \/ Ready /\ \E t \in PresentedTokens : deactivate_account(t)
    \/ Ready /\ \E t \in PresentedTokens : get_user_statistics(t)
    \/ Ready /\ \E t \in PresentedTokens : export_user_data(t)
    \/ Ready /\ \E t \in PresentedTokens : users_get_all_users(t)
    \/ Ready /\ \E t \in PresentedTokens, i \in UserIds : users_get_user_by_id(t, i)
    \/ Ready /\ \E t \in PresentedTokens, d \in AdminUserCreates : create_user_by_admin(t, d)
    \/ Ready /\ \E t \in PresentedTokens, i \in UserIds, u \in AdminUserUpdates :
          update_user_by_admin(t, i, u)
    \/ Ready /\ \E t \in PresentedTokens, i \in UserIds, r \in BOOLEAN :
          delete_user_by_admin(t, i, r)
    \/ Ready /\ \E i \in UserIds, c \in Passwords, p \in Passwords :
          UserService_update_password(i, c, p)
    \/ Ready /\ \E i \in UserIds, b \in BOOLEAN : UserService_delete_user(i, b)
    \/ Ready /\ \E t \in PresentedTokens : admin_get_all_users(t)
    \/ Ready /\ \E t \in PresentedTokens : get_user_stats(t)
    \/ Ready /\ \E t \in PresentedTokens, i \in UserIds : admin_get_user_by_id(t, i)
    \/ Ready /\ \E t \in PresentedTokens, d \in AdminUserCreates : create_user_admin(t, d)
    \/ Ready /\ \E t \in PresentedTokens, i \in UserIds, u \in AdminUserUpdates :
          update_user_admin(t, i, u)
    \/ Ready /\ \E t \in PresentedTokens, i \in UserIds : delete_user_admin(t, i)
    \/ Ready /\ \E t \in PresentedTokens, i \in UserIds : activate_user(t, i)
    \/ Ready /\ \E t \in PresentedTokens, i \in UserIds : make_superuser(t, i)
    \/ Ready /\ \E t \in PresentedTokens, i \in UserIds : remove_superuser(t, i)
    \/ Ready /\ \E t \in PresentedTokens, i \in UserIds : verify_user_email_admin(t, i)
    \/ Ready /\ \E t \in PresentedTokens : get_system_stats(t)
    \/ Ready /\ \E t \in PresentedTokens : get_recent_registrations(t)
    \/ Ready /\ \E t \in PresentedTokens : get_audit_log(t)
    \/ Ready /\ \E t \in PresentedTokens, i \in UserIds, p \in Passwords :
          reset_user_password_admin(t, i, p)
    \/ Ready /\ \E t \in PresentedTokens : export_users(t)
    \/ Ready /\ \E t \in PresentedTokens, d \in ImportLists : import_users(t, d)
    \/ Ready /\ \E t \in PresentedTokens, S \in SUBSET UserIds : bulk_activate_users(t, S)
    \/ Ready /\ \E t \in PresentedTokens, S \in SUBSET UserIds : bulk_deactivate_users(t, S)
    \/ Ready /\ \E t \in PresentedTokens, i \in UserIds : get_user_sessions(t, i)
    \/ Ready /\ \E t \in PresentedTokens, i \in UserIds : invalidate_user_sessions(t, i)
    \/ Ready /\ \E e \in Emails, v \in BOOLEAN, a \in BOOLEAN :
          UserService_create_user(e, PwOne, v, a)
    \/ Ready /\ \E t \in PresentedTokens : get_items(t)
    \/ Ready /\ \E t \in PresentedTokens, i \in ItemIds : get_item(t, i)
    \/ Ready /\ \E t \in PresentedTokens, a \in BOOLEAN : create_item(t, a)
    \/ Ready /\ \E t \in PresentedTokens, i \in ItemIds, a \in BOOLEAN :
          update_item(t, i, a)
    \/ Ready /\ \E t \in PresentedTokens, i \in ItemIds : delete_item(t, i)

Spec == Init /\ [][Next]_vars

\* The token rotation service, called directly (no route uses it), over a
\* database that holds the first superuser and one registered user.
InitRotation ==
    /\ users = [i \in UserIds |->
                  IF i = 1
                  THEN NewUser(FIRST_SUPERUSER_EMAIL, FIRST_SUPERUSER_PASSWORD,
                               TRUE, TRUE, TRUE)
                  ELSE IF i = 2
                  THEN NewUser("user@example.com", PwOne, TRUE, FALSE, FALSE)
                  ELSE AbsentUser]
    /\ nextId = 3
    /\ tokens = {}
    /\ now = 0
    /\ elapsed = 0
    /\ resetIssued = 0
    /\ audit_log = << >>
    /\ requests = 0
    /\ resp = Idle
    /\ items = [i \in ItemIds |-> AbsentItem]
    /\ nextItemId = 1
    /\ token_store = RefreshTokenStore
    /\ rotating = << >>
    /\ refresh_tokens = {}
    /\ secrets = 0
    /\ rotated = {}
    /\ reused = {}
    \* no pipeline of the validation harness is run
    /\ pipeline_name = ""
    /\ started = {}
    /\ finished = {}
    /\ catalog = {}
    /\ project_info = {}
    /\ test_dirs = {}
    /\ compose = NotCalled

NextRotation ==
    \/ Receive
    \/ rotating = << >> /\ \E d \in ElapseChoices : Elapse(d)
    \/ Ready /\ \E i \in UserIds, k \in {"none", "access"} : create_token_pair(i, k)
    \/ Ready /\ \E t \in PresentedRefreshTokens : rotate_refresh_token(t)
    \/ \E i \in 1..Len(rotating), k \in {"none", "access"} :
          rotate_refresh_token_resumed(i, k)
    \/ Ready /\ \E t \in PresentedRefreshTokens, f \in BOOLEAN :
          revoke_refresh_token(t, f)
    \/ Ready /\ \E i \in UserIds : revoke_all_user_tokens(i)
    \/ Ready /\ \E t \in PresentedRefreshTokens : validate_refresh_token(t)
    \/ Ready /\ \E i \in UserIds, b \in BOOLEAN : UserService_delete_user(i, b)

SpecRotation == InitRotation /\ [][NextRotation]_vars

\* ------------------------------------------ kedro-pipeline: the pipelines
\* kedro.pipeline.node(func, inputs, outputs, name)
node(func, inputs, outputs, name) ==
    [func |-> func, inputs |-> inputs, outputs |-> outputs, name |-> name]

GenerationParams == <<"params:generation", "params:test", "params:validation">>

create_validation_pipeline ==
    {node("generate_project", GenerationParams, "project_info",
          "generate_test_project"),
     node("validate_docker_build",
          <<"project_info">> \o GenerationParams, "docker_build_results",
          "validate_docker_builds"),
     node("run_container_tests",
          <<"docker_build_results">> \o GenerationParams,
          "container_test_results", "test_docker_containers"),
     node("run_unit_tests", <<"project_info">>, "unit_test_results",
          "run_unit_tests"),
     node("generate_validation_report",
          <<"docker_build_results", "container_test_results", "unit_test_results">>,
          "validation_report", "generate_report"),
     node("cleanup_test_artifacts", <<"project_info">>, "cleanup_results",
          "cleanup_artifacts")}

create_quick_test_pipeline ==
    {node("generate_project", GenerationParams, "project_info",
          "generate_test_project"),
     node("run_unit_tests", <<"project_info">>, "unit_test_results",
          "run_unit_tests"),
     node("cleanup_test_artifacts", <<"project_info">>, "cleanup_results",
          "cleanup_artifacts")}

\* pipeline(pipe, namespace=..., outputs=...): node names and datasets get the
\* namespace as prefix, the declared outputs and the parameters keep their
\* names.
create_release_pipeline ==
    LET namespace == "release"
        outputs == {"validation_report"}
        renamed(dataset) ==
            IF dataset \in outputs \/ dataset \in {GenerationParams[i] : i \in 1..3}
            THEN dataset ELSE namespace \o "." \o dataset
    IN {node(n.func, [i \in 1..Len(n.inputs) |-> renamed(n.inputs[i])],
             renamed(n.outputs), namespace \o "." \o n.name) :
           n \in create_validation_pipeline}
       \cup {node("lambda", <<"validation_report">>, "validation_passed",
               "check_validation")}

create_package_test_pipeline ==
    {node("validate_package_json", <<"params:test">>, "package_json_validation",
          "validate_package_json"),
     node("test_npm_package_files", <<"params:test">>, "npm_package_test",
          "test_npm_package"),
     node("test_package_installation", <<"params:test">>, "package_install_test",
          "test_package_installation")}

create_structure_test_pipeline ==
    {node("generate_project", GenerationParams, "structure_project_info",
          "generate_structure_project"),
     node("test_generated_structure", <<"structure_project_info">>,
          "structure_test", "test_structure"),
     node("test_file_contents", <<"structure_project_info">>,
          "file_contents_test", "test_file_contents"),
     node("test_gitignore_generation", <<"structure_project_info">>,
          "gitignore_test", "test_gitignore"),
     node("cleanup_test_artifacts",
          <<"structure_project_info", "structure_test", "file_contents_test",
            "gitignore_test">>,
          "structure_cleanup", "cleanup_structure_test")}

create_docker_test_pipeline ==
    {node("generate_project", GenerationParams, "docker_project_info",
          "generate_docker_project"),
     node("test_docker_compose_validity", <<"docker_project_info">>,
          "docker_compose_test", "test_docker_compose"),
     node("test_dockerfile_best_practices", <<"docker_project_info">>,
          "dockerfile_test", "test_dockerfiles"),
     node("test_docker_build_success", <<"docker_project_info", "params:test">>,
          "docker_build_test", "test_docker_build"),
     node("test_docker_compose_up", <<"docker_project_info", "params:test">>,
          "docker_up_test", "test_docker_up"),
     node("cleanup_test_artifacts",
          <<"docker_project_info", "docker_compose_test", "dockerfile_test",
            "docker_build_test", "docker_up_test">>,
          "docker_cleanup", "cleanup_docker_test")}

create_e2e_test_pipeline ==
    {node("generate_project", GenerationParams, "e2e_project_info",
          "generate_e2e_project"),
     node("test_health_endpoints", <<"e2e_project_info", "params:generation">>,
          "health_test", "test_health"),
     node("test_login_flow", <<"e2e_project_info", "params:generation">>,
          "login_test", "test_login"),
     node("test_crud_operations", <<"e2e_project_info", "params:generation">>,
          "crud_test", "test_crud"),
     node("cleanup_test_artifacts",
          <<"e2e_project_info", "health_test", "login_test", "crud_test">>,
          "e2e_cleanup", "cleanup_e2e_test")}

\* The pipelines that are run here. "test:all" is left out: it is the sum of
\* the four test pipelines, whose nodes and datasets are disjoint, and one node
\* that reads their test results.
PipelineNames ==
    {"validation", "quick", "release", "test:package", "test:structure",
     "test:docker", "test:e2e"}

register_pipelines ==
    [name \in PipelineNames |->
        CASE name = "validation" -> create_validation_pipeline
          [] name = "quick" -> create_quick_test_pipeline
          [] name = "release" -> create_release_pipeline
          [] name = "test:package" -> create_package_test_pipeline
          [] name = "test:structure" -> create_structure_test_pipeline
          [] name = "test:docker" -> create_docker_test_pipeline
          [] OTHER -> create_e2e_test_pipeline]

\* ------------------------------------------ kedro-pipeline: running one
\* generation.project_name, as run_pipeline.py or the parameters set it.
ProjectPaths == {"test-kedro-project", "My-App"}

\* Path(project_info["project_path"]).name.lower().replace("-", "")
project_name(project_path) ==
    CASE project_path = "test-kedro-project" -> "testkedroproject"
      [] project_path = "My-App" -> "myapp"
      [] OTHER -> project_path

\* ["docker", "compose", "-p", f"test-{project_name}", ...] run in project_path
docker_compose(command, project_path) ==
    [command |-> command, project |-> "test-" \o project_name(project_path),
     cwd |-> project_path]

\* kedro run --pipeline name --params generation.project_name=...
run_pipeline(name, generation_project_name) ==
    /\ pipeline_name = ""
    /\ pipeline_name' = name
    /\ project_info' = {[dataset |-> "params:generation", success |-> TRUE,
                         project_path |-> generation_project_name]}
    /\ UNCHANGED <<users, nextId, tokens, now, elapsed, resetIssued, audit_log,
                   requests, resp, items, nextItemId, rotation>>
    /\ UNCHANGED <<started, finished, catalog, test_dirs, compose>>

Nodes == IF pipeline_name = "" THEN {} ELSE register_pipelines[pipeline_name]

\* The runner starts a node whose inputs are all there, while a worker is free.
Runnable(n) ==
    /\ n \in Nodes
    /\ n.name \notin started
    /\ \A i \in 1..Len(n.inputs) : n.inputs[i] \in {GenerationParams[p] : p \in 1..3} \cup catalog
    /\ Cardinality(started \ finished) < MaxWorkers

\* The record generate_project stored under a dataset.
Project(dataset) == CHOOSE info \in project_info : info.dataset = dataset

\* The runner calls the function of a node.
StartNode(n) ==
    /\ Runnable(n)
    /\ started' = started \cup {n.name}
    /\ compose' = IF n.func # "test_docker_compose_up" THEN compose
                  ELSE IF ~Project(n.inputs[1]).success
                  THEN [NotCalled EXCEPT !.pc = "returned"]
                  ELSE [NotCalled EXCEPT
                          !.pc = "up",
                          !.project_path = Project(n.inputs[1]).project_path]
    /\ UNCHANGED <<users, nextId, tokens, now, elapsed, resetIssued, audit_log,
                   requests, resp, items, nextItemId, rotation>>
    /\ UNCHANGED <<pipeline_name, finished, catalog, project_info,
                   test_dirs>>

\* generate_project returns: the test directory exists, the project may not.
generate_project(n, success) ==
    /\ n \in Nodes /\ n.name \in started \ finished /\ n.func = "generate_project"
    /\ finished' = finished \cup {n.name}
    /\ catalog' = catalog \cup {n.outputs}
    /\ project_info' = project_info \cup
                       {[dataset |-> n.outputs, success |-> success,
                         project_path |-> Project(n.inputs[1]).project_path]}
    /\ test_dirs' = test_dirs \cup {n.outputs}
    /\ UNCHANGED <<users, nextId, tokens, now, elapsed, resetIssued, audit_log,
                   requests, resp, items, nextItemId, rotation>>
    /\ UNCHANGED <<pipeline_name, started, compose>>

\* cleanup_test_artifacts returns: shutil.rmtree has removed the test
\* directory.
cleanup_test_artifacts(n) ==
    /\ n \in Nodes /\ n.name \in started \ finished /\ n.func = "cleanup_test_artifacts"
    /\ finished' = finished \cup {n.name}
    /\ catalog' = catalog \cup {n.outputs}
    /\ test_dirs' = test_dirs \ {n.inputs[1]}
    /\ UNCHANGED <<users, nextId, tokens, now, elapsed, resetIssued, audit_log,
                   requests, resp, items, nextItemId, rotation>>
    /\ UNCHANGED <<pipeline_name, started, project_info, compose>>

\* Where control goes when the try block of test_docker_compose_up is left,
\* by a return, by an exception or by reaching its end, were there no finally.
leave_try_unguarded(how) == IF how = "return" THEN "returned" ELSE "finally"

\* The same with the finally clause: always into it.
leave_try(how) == "finally"

\* subprocess.run of docker compose up -d
compose_up(outcome) ==
    /\ compose.pc = "up"
    /\ compose' = [compose EXCEPT
                     !.commands = Append(@, docker_compose("up", compose.project_path)),
                     !.pc = CASE outcome = "zero" -> "ps"
                              [] outcome = "nonzero" -> leave_try("return")
                              [] outcome = "timeout" -> leave_try("TimeoutExpired")
                              [] OTHER -> leave_try("Exception")]
    /\ UNCHANGED <<users, nextId, tokens, now, elapsed, resetIssued, audit_log,
                   requests, resp, items, nextItemId, rotation>>
    /\ UNCHANGED <<pipeline_name, started, finished, catalog,
                   project_info, test_dirs>>

\* subprocess.run of docker compose ps, then of docker compose logs
compose_check(outcome) ==
    /\ compose.pc \in {"ps", "logs"}
    /\ compose' = [compose EXCEPT
                     !.commands = Append(@, docker_compose(compose.pc,
                                                           compose.project_path)),
                     !.pc = CASE outcome = "timeout" -> leave_try("TimeoutExpired")
                              [] outcome = "error" -> leave_try("Exception")
                              [] compose.pc = "ps" -> "logs"
                              [] OTHER -> leave_try("end")]
    /\ UNCHANGED <<users, nextId, tokens, now, elapsed, resetIssued, audit_log,
                   requests, resp, items, nextItemId, rotation>>
    /\ UNCHANGED <<pipeline_name, started, finished, catalog,
                   project_info, test_dirs>>

\* finally: subprocess.run of docker compose down -v, whatever it raises
compose_down(outcome) ==
    /\ compose.pc = "finally"
    /\ compose' = [compose EXCEPT
                     !.commands = Append(@, docker_compose("down -v",
                                                           compose.project_path)),
                     !.pc = "returned"]
    /\ UNCHANGED <<users, nextId, tokens, now, elapsed, resetIssued, audit_log,
                   requests, resp, items, nextItemId, rotation>>
    /\ UNCHANGED <<pipeline_name, started, finished, catalog,
                   project_info, test_dirs>>

\* Any other node function returns; test_docker_compose_up once it is through.
FinishNode(n) ==
    /\ n \in Nodes /\ n.name \in started \ finished
    /\ n.func \notin {"generate_project", "cleanup_test_artifacts"}
    /\ n.func = "test_docker_compose_up" => compose.pc = "returned"
    /\ finished' = finished \cup {n.name}
    /\ catalog' = catalog \cup {n.outputs}
    /\ UNCHANGED <<users, nextId, tokens, now, elapsed, resetIssued, audit_log,
                   requests, resp, items, nextItemId, rotation>>
    /\ UNCHANGED <<pipeline_name, started, project_info, test_dirs,
                   compose>>

SubprocessOutcomes == {"zero", "nonzero", "timeout", "error"}

NextHarness ==
    \/ \E name \in PipelineNames, generation_project_name \in ProjectPaths :
          run_pipeline(name, generation_project_name)
    \/ \E name \in PipelineNames :
          \E n \in register_pipelines[name] : StartNode(n)
    \/ \E name \in PipelineNames :
          \E n \in register_pipelines[name], success \in BOOLEAN :
             generate_project(n, success)
    \/ \E name \in PipelineNames :
          \E n \in register_pipelines[name] : cleanup_test_artifacts(n)
    \/ \E outcome \in SubprocessOutcomes : compose_up(outcome)
    \/ \E outcome \in SubprocessOutcomes : compose_check(outcome)
    \/ \E outcome \in SubprocessOutcomes : compose_down(outcome)
    \/ \E name \in PipelineNames :
          \E n \in register_pipelines[name] : FinishNode(n)

SpecHarness == Init /\ [][NextHarness]_vars

\* ---------------------------------------------------------------- claims
LoginOps == {"login", "login_json"}

\* The account that holds the credentials a login response answers.
Holder(r) ==
    LET user == get_user_by_email(users, r.email)
    IN IF user # NoUserId /\ verify_password(r.pw, users[user].hashed_password)
       THEN user ELSE NoUserId

\* C1: while an account is inactive (after DELETE /users/me, an admin soft
\* delete or any other deactivation), every login with its correct email and
\* password is answered 401.
C1_InactiveLoginRejected ==
    (resp.op \in LoginOps /\ Holder(resp) # NoUserId
        /\ ~users[Holder(resp)].is_active)
    => (resp.status = 401 /\ resp.issued = NoToken)

C1_Witness ==
    /\ resp.op \in LoginOps
    /\ Holder(resp) # NoUserId
    /\ ~users[Holder(resp)].is_active
    /\ resp.status = 401

AdminOps ==
    {"users_get_all_users", "users_get_user_by_id", "create_user_by_admin",
     "update_user_by_admin", "delete_user_by_admin", "admin_get_all_users",
     "get_user_stats", "admin_get_user_by_id", "create_user_admin",
     "update_user_admin", "delete_user_admin", "activate_user", "make_superuser",
     "remove_superuser", "verify_user_email_admin", "get_system_stats",
     "get_recent_registrations", "get_audit_log", "reset_user_password_admin",
     "export_users", "import_users", "bulk_activate_users",
     "bulk_deactivate_users", "get_user_sessions", "invalidate_user_sessions"}

\* The request answered by r came from an authenticated user who is no
\* superuser.
ByRegularUser(r) ==
    /\ get_current_active_user(r.tok).status = 200
    /\ ~users[get_current_active_user(r.tok).user].is_superuser

\* C2: an admin-only operation called by an authenticated user who is not a
\* superuser is answered 403 'Not enough permissions' and leaves the users,
\* the items and the audit log as they were.
C2_AdminOnlyRefused ==
    [][(resp = Idle /\ resp'.op \in AdminOps /\ ByRegularUser(resp'))
         => /\ resp'.status = 403
            /\ resp'.detail = "Not enough permissions"
            /\ UNCHANGED <<users, nextId, audit_log, items, nextItemId>>]_vars

C2_Witness ==
    /\ resp.op \in AdminOps
    /\ ByRegularUser(resp)
    /\ resp.status = 403
    /\ resp.detail = "Not enough permissions"

\* What the HTTP response itself carries: the status, the message, and the
\* token or the entries it returns.
Body(r) ==
    [status |-> r.status, detail |-> r.detail, issued |-> r.issued,
     items |-> r.items]

\* C3: the password-recovery endpoint answers 200 'Password recovery email
\* sent' with the same body whether or not the email belongs to an existing,
\* active account.
C3_RecoveryAnswerConstant ==
    resp.op = "recover_password"
    => Body(resp) = Body(Resp("recover_password", 200,
                              "Password recovery email sent"))

C3_Witness ==
    /\ resp.op = "recover_password"
    /\ get_user_by_email(users, resp.email) = NoUserId
    /\ resp.status = 200

PasswordChangeOps ==
    {"update_password", "update_current_user", "UserService.update_password"}

\* C4: after a user's successful password change, a login with the old
\* password is rejected (401) and a login with the new password succeeds.
C4_PasswordChangeTakesEffect ==
    [][(resp = Idle /\ resp'.op \in PasswordChangeOps /\ resp'.status = 200
          /\ resp'.pw # NoPw)
         => LET user == resp'.target
                old_password == users[user].hashed_password.bcrypt
            IN /\ authenticate_user(users', users'[user].email, old_password)
                    = NoUserId
               /\ authenticate_user(users', users'[user].email, resp'.pw) = user]_vars

\* The token is a refresh token a login or registration handed out, still
\* unexpired.
LoginRefreshToken(token) ==
    token \in tokens /\ token.type = "refresh" /\ token.exp >= now

FailsVerification(token) ==
    token = InvalidToken \/ token.exp < now

Refreshed(r, token) ==
    /\ r.status = 200
    /\ r.issued.type = "access"
    /\ r.issued.sub = token.sub

InvalidRefresh(r) == r.status = 401 /\ r.detail = "Invalid refresh token"

\* C5 as stated: POST /auth/refresh answers 200 with a new access token for
\* the token's user whenever it is given the refresh token of that user's
\* login, and 401 'Invalid refresh token' for a token that fails verification.
C5_RefreshAsStated ==
    [][(resp = Idle /\ resp'.op = "refresh_token")
         => /\ LoginRefreshToken(resp'.tok) => Refreshed(resp', resp'.tok)
            /\ FailsVerification(resp'.tok) => InvalidRefresh(resp')]_vars

\* C5, amended: the refresh token of a login yields 200 and a new access token
\* for its user as long as that user still exists and is active; a token that
\* fails verification, or whose user is gone or inactive, yields 401 'Invalid
\* refresh token'.
C5_RefreshForActiveUser ==
    [][(resp = Idle /\ resp'.op = "refresh_token")
         => LET token == resp'.tok
                live == /\ get_user_by_id(users, token.sub) # NoUserId
                        /\ users[token.sub].is_active
            IN /\ (LoginRefreshToken(token) /\ live) => Refreshed(resp', token)
               /\ (LoginRefreshToken(token) /\ ~live) => InvalidRefresh(resp')
               /\ FailsVerification(token) => InvalidRefresh(resp')]_vars

C5_Witness ==
    /\ resp.op = "refresh_token"
    /\ resp.tok # InvalidToken
    /\ resp.tok.type = "refresh"
    /\ Refreshed(resp, resp.tok)

Matches(i, token) == users[i].exists /\ users[i].password_reset_token = token

TooOld(i) ==
    now - users[i].password_reset_at
        > PASSWORD_RESET_TOKEN_EXPIRE_HOURS * MinutesPerHour

\* The reset token matches no stored token, or only ones issued longer ago
\* than the expiry window.
BadResetToken(token) == \A i \in UserIds : Matches(i, token) => TooOld(i)

InvalidReset(r) ==
    r.status = 400 /\ r.detail = "Invalid or expired reset token"

UniqueEmails ==
    \A i, j \in UserIds :
        (users[i].exists /\ users[j].exists /\ i # j)
            => users[i].email # users[j].email

CreateOps ==
    {"register", "create_user_by_admin", "create_user_admin",
     "UserService.create_user"}

EmailUpdateOps ==
    {"update_current_user", "update_user_by_admin", "update_user_admin"}

\* The request answered by r names an email that another account holds.
NamesHeldEmail(r) ==
    \/ /\ r.op \in CreateOps
       /\ \E i \in UserIds : users[i].exists /\ users[i].email = r.email
    \/ /\ r.op \in EmailUpdateOps
       /\ r.target \in UserIds
       /\ users[r.target].exists
       /\ \E i \in UserIds \ {r.target} :
             users[i].exists /\ users[i].email = r.email

C8_AdminDeleteIsSoft ==
    [][(resp = Idle /\ resp'.op \in {"delete_user_by_admin", "delete_user_admin"}
          /\ resp'.status = 200)
         => /\ users'[resp'.target].exists
            /\ ~users'[resp'.target].is_active]_vars

\* C9: each successful authentication through AuthService.authenticate_user
\* raises the user's login_count by exactly one and sets last_login_at to a
\* later value than before.
C9_AuthenticateTracksLogin ==
    [][(resp = Idle /\ resp'.op = "authenticate_user" /\ resp'.status = 200)
         => LET user == resp'.caller
            IN /\ users'[user].login_count = users[user].login_count + 1
               /\ users'[user].last_login_at > users[user].last_login_at]_vars

AdminWriteOps ==
    {"create_user_admin", "update_user_admin", "delete_user_admin",
     "activate_user", "make_superuser", "remove_superuser",
     "verify_user_email_admin", "reset_user_password_admin", "import_users",
     "bulk_activate_users", "bulk_deactivate_users", "invalidate_user_sessions"}

\* C10: every admin operation that completes successfully appends an
\* audit-log entry with the acting admin's id, the action and a timestamp,
\* and the audit-log endpoint returns the entries.
C10_AdminActionsLogged ==
    [][/\ (resp = Idle /\ resp'.op \in AdminWriteOps /\ resp'.status = 200)
          => /\ Len(audit_log') = Len(audit_log) + 1
             /\ SubSeq(audit_log', 1, Len(audit_log)) = audit_log
             /\ audit_log'[Len(audit_log')].admin_id = resp'.caller
             /\ audit_log'[Len(audit_log')].timestamp = now
       /\ (resp = Idle /\ resp'.op = "get_audit_log" /\ resp'.status = 200)
          => resp'.items = audit_log]_vars

\* A token the API accepts: as a bearer token of a protected route, or at
\* POST /auth/refresh.
AcceptedAsBearer(token) == get_current_user(token).status = 200

AcceptedAtRefresh(token) ==
    LET user == get_user_by_id(users, verify_token(token, now))
    IN user # NoUserId /\ users[user].is_active

\* C11: after an admin has invalidated all sessions of a user, no access or
\* refresh token that was issued to that user before the invalidation is
\* accepted any more.
C11_SessionsInvalidated ==
    (resp.op = "invalidate_user_sessions" /\ resp.status = 200)
        => \A token \in tokens :
              token.sub = resp.target
                 => ~AcceptedAsBearer(token) /\ ~AcceptedAtRefresh(token)

\* A refresh token the rotation service accepts: validate_refresh_token
\* answers True for it, and rotate_refresh_token goes on to rotate it.
AcceptedRefresh(token) == valid_refresh_token(token_store, token, now)

\* C12: once a refresh token that was already used or rotated has been
\* presented again, no refresh token of its family is accepted any more, the
\* most recently issued one included, however concurrent rotations interleave.
C12_ReuseRevokesFamily ==
    \A token \in refresh_tokens :
        token.family_id \in reused => ~AcceptedRefresh(token)

\* C13: a successful rotate_refresh_token issues a new access/refresh token
\* pair in the family of the presented refresh token and invalidates the
\* presented token: it is never validated and never rotated successfully again.
C13_RotationRetiresToken ==
    [][/\ (resp = Idle /\ resp'.op = "rotate_refresh_token" /\ resp'.status = 200)
          => LET old == resp'.tok
                 access == resp'.items[1]
                 new == resp'.items[2]
             IN /\ access.type = "access" /\ access.sub = old.sub
                /\ new.type = "refresh" /\ new.sub = old.sub
                /\ new.family_id = old.family_id
                /\ new \notin refresh_tokens
                /\ valid_refresh_token(token_store', new, now')
                /\ old \notin rotated
       /\ \A token \in rotated' : ~valid_refresh_token(token_store', token, now')
       /\ (resp = Idle /\ resp'.op = "validate_refresh_token"
             /\ resp'.tok \in rotated)
          => resp'.detail = "False"]_vars

\* A token that was rotated has been presented once more.
C13_Witness ==
    /\ resp.op \in {"rotate_refresh_token", "validate_refresh_token"}
    /\ resp.tok \in rotated
    /\ resp.status # 200 \/ resp.detail = "False"

\* C18: rotate_refresh_token reports every rejection (wrong token type,
\* missing subject or family id, token not found or expired, token reuse,
\* user missing or inactive) to its caller as HTTP 401.
C18_RejectionsAre401 ==
    (resp.op = "rotate_refresh_token" /\ resp.status # 200) => resp.status = 401

\* The stored refresh tokens of a family that are not marked used.
Unused(store, family_id) ==
    {h \in DOMAIN store.tokens :
        store.tokens[h].family_id = family_id /\ ~store.tokens[h].used}

\* C19: after any sequence of create_token_pair, rotate_refresh_token and
\* revoke operations, each token family contains at most one stored refresh
\* token that is not marked used.
C19_OneUnusedPerFamily ==
    \A family_id \in 1..secrets : Cardinality(Unused(token_store, family_id)) <= 1

\* A family whose first token was rotated holds its one unused successor.
C19_Witness ==
    \E token \in rotated :
        Cardinality(Unused(token_store, token.family_id)) = 1

\* C14: a user who is not a superuser never becomes one through their own
\* requests: is_superuser of an account changes only as the result of an
\* operation performed by a superuser.
C14_OnlySuperusersGrant ==
    [][\A user \in UserIds :
          (/\ users[user].exists /\ users'[user].exists
           /\ users'[user].is_superuser # users[user].is_superuser)
             => (resp'.caller # NoUserId /\ users[resp'.caller].is_superuser)]_vars

\* C15: POST /auth/refresh accepts only tokens of type "refresh": an access
\* token presented to it never yields a new access token.
C15_RefreshNeedsRefreshToken ==
    (resp.op = "refresh_token" /\ resp.tok.type # "refresh")
        => (resp.status # 200 /\ resp.issued = NoToken)

\* C16: a superuser never removes superuser status from their own account
\* through a user-update or admin operation: the account remains a superuser.
C16_NoSelfDemotion ==
    [][(/\ resp = Idle
        /\ resp'.op \in AdminOps \cup {"update_current_user"}
        /\ resp'.caller # NoUserId
        /\ users[resp'.caller].is_superuser)
         => (users'[resp'.caller].exists => users'[resp'.caller].is_superuser)]_vars

\* C17: an admin operation never deactivates or deletes the account of the
\* admin who performs it, and a delete that targets the caller is rejected
\* and changes no user.
C17_NoSelfRemoval ==
    [][(/\ resp = Idle
        /\ resp'.op \in AdminOps
        /\ resp'.caller # NoUserId
        /\ users[resp'.caller].is_superuser)
         => /\ users'[resp'.caller].exists
            /\ users'[resp'.caller].is_active
            /\ (/\ resp'.op \in {"delete_user_admin", "delete_user_by_admin"}
                /\ resp'.target = resp'.caller)
                  => (resp'.status # 200 /\ UNCHANGED users)]_vars

\* The operations behind get_current_user and the dependencies built on it.
ProtectedOps ==
    AdminOps \cup
    {"logout", "verify_token", "get_current_user_info", "update_current_user",
     "update_password", "deactivate_account", "get_user_statistics",
     "export_user_data", "get_items", "get_item", "create_item", "update_item",
     "delete_item"}

\* An unexpired access token of a user who exists and is inactive.
OfInactiveUser(token) ==
    /\ token.type = "access"
    /\ jwt_decode_ok(token, now)
    /\ get_user_by_id(users, token.sub) # NoUserId
    /\ ~users[token.sub].is_active

\* C20: an access token issued before its user was deactivated stops granting
\* access at once: every protected request made with it while the user is
\* inactive is answered 403 'Inactive user' and changes nothing.
C20_InactiveTokenRefused ==
    [][(resp = Idle /\ resp'.op \in ProtectedOps /\ OfInactiveUser(resp'.tok))
         => /\ resp'.status = 403
            /\ resp'.detail = "Inactive user"
            /\ UNCHANGED <<users, nextId, tokens, items, nextItemId, audit_log,
                           resetIssued>>]_vars

C20_Witness ==
    /\ resp.op \in ProtectedOps
    /\ OfInactiveUser(resp.tok)
    /\ resp.status = 403

\* The nodes of the running pipeline that work in the project directory a
\* generate_project node made: they read its project_info.
UsesProjectDirectory(m, dataset) ==
    /\ m \in Nodes
    /\ m.func \notin {"generate_project", "cleanup_test_artifacts"}
    /\ \E i \in 1..Len(m.inputs) : m.inputs[i] = dataset

\* C21: in every pipeline that includes it, cleanup_test_artifacts is started
\* only after every node that uses the generated project directory has
\* finished.
C21_CleanupRunsLast ==
    [][\A n \in Nodes :
          (n.func = "cleanup_test_artifacts" /\ n.name \in started' \ started)
            => \A m \in Nodes :
                  UsesProjectDirectory(m, n.inputs[1]) => m.name \in finished]_vars

\* C22: whenever test_docker_compose_up has started 'docker compose up' for a
\* project, it has run 'docker compose down -v' for the same project, in the
\* same directory, afterwards and before it returns, on every path: success,
\* non-zero exit of 'up', timeout or any other exception.
C22_ComposeDownBeforeReturn ==
    compose.pc = "returned" =>
        \A i \in 1..Len(compose.commands) :
            compose.commands[i].command = "up" =>
                \E j \in (i + 1)..Len(compose.commands) :
                    /\ compose.commands[j].command = "down -v"
                    /\ compose.commands[j].project = compose.commands[i].project
                    /\ compose.commands[j].cwd = compose.commands[i].cwd

\* 'up' did not succeed, and test_docker_compose_up has returned.
C22_Witness ==
    /\ compose.pc = "returned"
    /\ Len(compose.commands) = 2
    /\ compose.commands[1].command = "up"
    /\ compose.commands[2].command = "down -v"

====
